---------------------------- MODULE Spec2Model ----------------------------
(***************************************************************************)
(* Model of the YouTube transcript service:                                *)
(*   app/services/transcript_service.py  (TranscriptService)               *)
(*   app/api/routes.py                   (process_videos)                  *)
(*                                                                         *)
(* The captions library (youtube_transcript_api) and the HTTP framework    *)
(* are the environment.  Every call that leaves the process (direct fetch, *)
(* track enumeration, translate, fetch) returns or raises, the choice      *)
(* being the environment's; the lookups on an enumerated track list are    *)
(* decided by the tracks the enumeration returned.                         *)
(***************************************************************************)
EXTENDS Integers, Sequences, FiniteSets, TLC

VARIABLES
    \* ---- process_videos / process_multiple_videos / get_transcript ----
    pc,               \* position of the request being served
    data,             \* what request.get_json() gives for the request body
    video_urls,       \* the list handed to process_multiple_videos
    idx,              \* position of the for loop over urls (1-based)
    results,          \* the dict built by process_multiple_videos
    response,         \* the HTTP response of process_videos
    transcript_list,  \* the value list_transcripts returned for the current URL
    attempts,         \* history: the strategies the current get_transcript
                      \* attempted, each with where it ended and how
    returned,         \* history: value returned by get_transcript, per position
    \* ---- extract_video_id applied to one URL ----
    url_arg,
    extracted,
    \* ---- format_transcript applied to one transcript ----
    fmt_transcript,
    fmt_metadata,
    formatted_text

svcVars == <<pc, data, video_urls, idx, results, response, transcript_list,
             attempts, returned>>
urlVars == <<url_arg, extracted>>
fmtVars == <<fmt_transcript, fmt_metadata, formatted_text>>
vars == <<svcVars, urlVars, fmtVars>>

(***************************************************************************)
(* extract_video_id: three regular expressions tried in order with         *)
(* re.search (leftmost match), the first capture group returned.           *)
(***************************************************************************)

\* {11} in each pattern
IdLen == 11

\* the character class [0-9A-Za-z_-]
IdChars ==
    { "0", "1", "2", "3", "4", "5", "6", "7", "8", "9",
      "A", "B", "C", "D", "E", "F", "G", "H", "I", "J", "K", "L", "M",
      "N", "O", "P", "Q", "R", "S", "T", "U", "V", "W", "X", "Y", "Z",
      "a", "b", "c", "d", "e", "f", "g", "h", "i", "j", "k", "l", "m",
      "n", "o", "p", "q", "r", "s", "t", "u", "v", "w", "x", "y", "z",
      "_", "-" }

\* Python's None
None == "None"

\* extract_video_id has not returned yet
Pending == "pending"

\* the literal alternatives of the non-capturing group of each pattern,
\* in the order the list holds the patterns
patterns == << <<"v=", "/">>, <<"embed/">>, <<"youtu.be/">> >>

\* the literal lit stands at position p of s
LiteralAt(s, lit, p) ==
    /\ p + Len(lit) - 1 <= Len(s)
    /\ SubSeq(s, p, p + Len(lit) - 1) = lit

\* ([0-9A-Za-z_-]{11}) matches at position p of s
GroupAt(s, p) ==
    /\ p + IdLen - 1 <= Len(s)
    /\ \A k \in 0 .. IdLen - 1 : SubSeq(s, p + k, p + k) \in IdChars

\* the pattern with alternatives alts matches starting at position p
MatchesAt(s, alts, p) ==
    \E a \in 1 .. Len(alts) :
        LiteralAt(s, alts[a], p) /\ GroupAt(s, p + Len(alts[a]))

\* group(1) of the match at p: the alternatives are tried left to right
GroupOfMatch(s, alts, p) ==
    LET a == CHOOSE a \in 1 .. Len(alts) :
                 /\ LiteralAt(s, alts[a], p) /\ GroupAt(s, p + Len(alts[a]))
                 /\ \A b \in 1 .. a - 1 :
                        ~(LiteralAt(s, alts[b], p) /\ GroupAt(s, p + Len(alts[b])))
        g == p + Len(alts[a])
    IN  SubSeq(s, g, g + IdLen - 1)

\* re.search(pattern, url): group(1) of the leftmost match, or None
re_search(alts, s) ==
    LET hits == { p \in 1 .. Len(s) : MatchesAt(s, alts, p) }
    IN  IF hits = {} THEN None
        ELSE GroupOfMatch(s, alts, CHOOSE p \in hits : \A q \in hits : p <= q)

RECURSIVE FirstMatch(_, _)
FirstMatch(k, url) ==
    IF k > Len(patterns) THEN None
    ELSE IF re_search(patterns[k], url) # None THEN re_search(patterns[k], url)
    ELSE FirstMatch(k + 1, url)

extract_video_id(url) == FirstMatch(1, url)


(***************************************************************************)
(* The captions library, as get_transcript uses it.                        *)
(***************************************************************************)

\* language codes of the caption tracks a video may have; 'en' is the
\* language get_transcript asks for
Langs == {"en", "de"}

\* a caption track (youtube_transcript_api's Transcript)
Track(code, generated) ==
    [language_code |-> code, is_generated |-> generated, translated_to |-> ""]

\* the track lists of one kind a video may have: one track per language
TrackLists(generated) ==
    {<<>>}
    \cup { <<Track(a, generated)>> : a \in Langs }
    \cup { <<Track(p[1], generated), Track(p[2], generated)>> :
               p \in { q \in Langs \X Langs : q[1] # q[2] } }

\* the values list_transcripts may return
TranscriptLists ==
    [ manual_transcripts : TrackLists(FALSE),
      generated_transcripts : TrackLists(TRUE) ]

\* transcript_list before list_transcripts has returned
NotListed == [manual_transcripts |-> <<>>, generated_transcripts |-> <<>>]

\* what a call into the library does: it returns, or it raises
Raised == {"NoTranscriptFound", "TranscriptsDisabled", "Exception"}
Outcomes == {"ok"} \cup Raised

\* str(e) of a raised exception
Str(exc) ==
    CASE exc = "NoTranscriptFound" -> "no transcript found"
      [] exc = "TranscriptsDisabled" -> "subtitles are disabled"
      [] OTHER -> "connection reset"

\* the position in tracks of the track with the language code, 0 if none
IndexOf(tracks, code) ==
    IF \E k \in 1 .. Len(tracks) : tracks[k].language_code = code
    THEN CHOOSE k \in 1 .. Len(tracks) : tracks[k].language_code = code
    ELSE 0

\* TranscriptList lookup over the given lists, first list first; with no
\* language codes given, the first track of the lists.  <<>> when the
\* lookup raises NoTranscriptFound, else <<track>>.
RECURSIVE LookUp(_, _)
LookUp(lists, codes) ==
    IF codes = <<>> THEN <<>>
    ELSE LET hit == SelectSeq(lists, LAMBDA l : IndexOf(l, Head(codes)) # 0)
         IN  IF hit # <<>>
             THEN << Head(hit)[IndexOf(Head(hit), Head(codes))] >>
             ELSE LookUp(lists, Tail(codes))

\* find_transcript looking through the generated tracks first
find_transcript_generated_first(tl, codes) ==
    LookUp(<<tl.generated_transcripts, tl.manual_transcripts>>, codes)

\* transcript_list.find_transcript(['en'])
find_transcript(tl, codes) ==
    LookUp(<<tl.manual_transcripts, tl.generated_transcripts>>, codes)

\* transcript_list.find_generated_transcript(['en'])
find_generated_transcript(tl, codes) ==
    LookUp(<<tl.generated_transcripts>>, codes)

\* transcript_list.find_manually_created_transcript(): any manual track
find_manually_created_any(tl) ==
    IF tl.manual_transcripts = <<>> THEN <<>>
    ELSE << Head(tl.manual_transcripts) >>

\* transcript_list.find_generated_transcript(): any generated track
find_generated_any(tl) ==
    IF tl.generated_transcripts = <<>> THEN <<>>
    ELSE << Head(tl.generated_transcripts) >>

\* translate leaving the track as it is
translate_nothing(track, code) == track

\* transcript.translate('en')
translate(track, code) == [track EXCEPT !.translated_to = code]

\* transcript.fetch(): the caption entries of the track, here one entry
\* that names the track it was fetched from
fetch(track) ==
    << [via |-> "fetch", language_code |-> track.language_code,
        is_generated |-> track.is_generated,
        translated_to |-> track.translated_to] >>

\* YouTubeTranscriptApi.get_transcript(video_id) returning
direct_transcript ==
    << [via |-> "get_transcript", language_code |-> "",
        is_generated |-> FALSE, translated_to |-> ""] >>

(***************************************************************************)
(* Values get_transcript returns: a list, or a dict with "error" and       *)
(* possibly "details".                                                     *)
(***************************************************************************)

ListValue(items) == [is_list |-> TRUE, items |-> items, dict |-> [error |-> ""]]
DictValue(d) == [is_list |-> FALSE, items |-> <<>>, dict |-> d]

\* dict.get(key, default)
Get(d, key, default) == IF key \in DOMAIN d THEN d[key] ELSE default

InvalidUrlResult == DictValue([error |-> "Invalid YouTube URL format"])

DisabledResult ==
    DictValue([error |-> "Transcripts are disabled for this video",
               details |-> "The video owner has disabled subtitles/closed captions. Please try a different video that has captions enabled."])

NotFoundResult ==
    DictValue([error |-> "No transcript found",
               details |-> "Could not find any transcripts for this video after trying multiple methods. Please verify that the video has captions available."])

UnexpectedResult(exc) ==
    DictValue([error |-> "Error fetching transcript: " \o Str(exc)])

\* the except clauses with except Exception first
ErrorResult_exception_first(exc) == UnexpectedResult(exc)

\* the except clauses of the outer try, in their order
ErrorResult(exc) ==
    IF exc = "TranscriptsDisabled" THEN DisabledResult
    ELSE IF exc = "NoTranscriptFound" THEN NotFoundResult
    ELSE UnexpectedResult(exc)


(***************************************************************************)
(* The requests.                                                           *)
(***************************************************************************)

\* most URLs of one request
MaxUrls == 2

\* the URL strings a request may hold
UrlPool ==
    { "https://www.youtube.com/watch?v=dQw4w9WgXcQ",
      "https://example.com/video",
      "   " }

RECURSIVE SeqsUpTo(_, _)
SeqsUpTo(S, n) ==
    IF n = 0 THEN {<<>>}
    ELSE SeqsUpTo(S, n - 1)
         \cup { Append(q, x) : q \in { r \in SeqsUpTo(S, n - 1) : Len(r) = n - 1 },
                               x \in S }

\* what request.get_json() does with the body of a request: it raises
\* (a body that is not JSON), gives None (no JSON body), or gives the object
JsonData ==
    { [kind |-> "raise", has_urls |-> FALSE, urls |-> <<>>],
      [kind |-> "none", has_urls |-> FALSE, urls |-> <<>>],
      [kind |-> "object", has_urls |-> FALSE, urls |-> <<>>] }
    \cup { [kind |-> "object", has_urls |-> TRUE, urls |-> us] :
               us \in SeqsUpTo(UrlPool, MaxUrls) }

NoResponse == [status |-> 0, error |-> "", results |-> <<>>]

(***************************************************************************)
(* process_multiple_videos: the body of the for loop after get_transcript  *)
(* has returned value for url.                                             *)
(***************************************************************************)

Entry(value) ==
    IF value.is_list
    THEN [status |-> "success", transcript |-> value.items]
    ELSE [status |-> "error",
          error |-> Get(value.dict, "error", "Unknown error"),
          details |-> Get(value.dict, "details", "")]

\* results[url] = {...}
Store(res, url, value) ==
    [u \in DOMAIN res \cup {url} |-> IF u = url THEN Entry(value) ELSE res[u]]

\* get_transcript returns value to the loop, which stores it and moves on
Return(value) ==
    /\ returned' = Append(returned, value)
    /\ results' = Store(results, video_urls[idx], value)
    /\ idx' = idx + 1
    /\ pc' = "loop"

\* get_transcript goes on with its next strategy
Continue(next) ==
    /\ pc' = next
    /\ UNCHANGED <<returned, results, idx>>

Attempt(name, stage, outcome) ==
    attempts' = Append(attempts,
                       [strategy |-> name, stage |-> stage, outcome |-> outcome])

(***************************************************************************)
(* process_videos, up to the call of process_multiple_videos.              *)
(***************************************************************************)
process_videos ==
    /\ pc = "idle"
    /\ \E d \in JsonData :
         /\ data' = d
         /\ IF d.kind = "raise"
            THEN \* get_json raises; except Exception
                 /\ response' = [status |-> 500, error |-> "400 Bad Request",
                                 results |-> <<>>]
                 /\ pc' = "responded"
                 /\ UNCHANGED video_urls
            ELSE IF d.kind = "none"
            THEN \* None.get raises AttributeError; except Exception
                 /\ response' = [status |-> 500,
                                 error |-> "'NoneType' object has no attribute 'get'",
                                 results |-> <<>>]
                 /\ pc' = "responded"
                 /\ UNCHANGED video_urls
            ELSE LET urls == IF d.has_urls THEN d.urls ELSE <<>>
                 IN  IF urls = <<>>
                     THEN /\ response' = [status |-> 400,
                                          error |-> "No URLs provided",
                                          results |-> <<>>]
                          /\ pc' = "responded"
                          /\ UNCHANGED video_urls
                     ELSE /\ video_urls' = urls
                          /\ pc' = "loop"
                          /\ UNCHANGED response
    /\ UNCHANGED <<idx, results, transcript_list, attempts, returned>>
    /\ UNCHANGED <<urlVars, fmtVars>>

\* the for loop is over: return results; jsonify(results)
respond_results ==
    /\ pc = "loop"
    /\ idx > Len(video_urls)
    /\ response' = [status |-> 200, error |-> "", results |-> results]
    /\ pc' = "responded"
    /\ UNCHANGED <<data, video_urls, idx, results, transcript_list, attempts,
                   returned>>
    /\ UNCHANGED <<urlVars, fmtVars>>

(***************************************************************************)
(* get_transcript(url), one action per call into the captions library.     *)
(***************************************************************************)

\* the next url of the loop: get_transcript up to its first try
get_transcript ==
    /\ pc = "loop"
    /\ idx <= Len(video_urls)
    /\ attempts' = <<>>
    /\ transcript_list' = NotListed
    /\ IF extract_video_id(video_urls[idx]) = None
       THEN Return(InvalidUrlResult)
       ELSE Continue("direct")
    /\ UNCHANGED <<data, video_urls, response>>
    /\ UNCHANGED <<urlVars, fmtVars>>

\* First try: YouTubeTranscriptApi.get_transcript(video_id); except Exception
direct_fetch ==
    /\ pc = "direct"
    /\ \E o \in Outcomes :
         /\ Attempt("direct", "fetch", o)
         /\ IF o = "ok"
            THEN Return(ListValue(direct_transcript))
            ELSE Continue("list")
    /\ UNCHANGED <<data, video_urls, response, transcript_list>>
    /\ UNCHANGED <<urlVars, fmtVars>>

\* Second try: YouTubeTranscriptApi.list_transcripts(video_id), inside the
\* outer try only
list_transcripts ==
    /\ pc = "list"
    /\ \E o \in Outcomes :
         /\ Attempt("list", "call", o)
         /\ IF o = "ok"
            THEN /\ \E tl \in TranscriptLists : transcript_list' = tl
                 /\ Continue("find_en")
            ELSE /\ UNCHANGED transcript_list
                 /\ Return(ErrorResult(o))
    /\ UNCHANGED <<data, video_urls, response>>
    /\ UNCHANGED <<urlVars, fmtVars>>

\* One try block of the nest: found is what the lookup gave (<<>>: it raised
\* NoTranscriptFound); the track is translated when translating, then
\* fetched.  except NoTranscriptFound goes on with next; anything else
\* raised leaves the nest for the except clauses of the outer try.
TryTrack(name, found, translating, next) ==
    IF found = <<>>
    THEN /\ Attempt(name, "lookup", "NoTranscriptFound")
         /\ Continue(next)
    ELSE \E stage \in (IF translating THEN {"translate", "fetch"} ELSE {"fetch"}),
            o \in Outcomes :
           /\ stage = "translate" => o # "ok"
           /\ Attempt(name, stage, o)
           /\ IF o = "ok"
              THEN Return(ListValue(fetch(IF translating
                                          THEN translate(found[1], "en")
                                          ELSE found[1])))
              ELSE IF o = "NoTranscriptFound"
              THEN Continue(next)
              ELSE Return(ErrorResult(o))

find_english ==
    /\ pc = "find_en"
    /\ TryTrack("find_en", find_transcript(transcript_list, <<"en">>),
                FALSE, "find_generated_en")
    /\ UNCHANGED <<data, video_urls, response, transcript_list>>
    /\ UNCHANGED <<urlVars, fmtVars>>

find_generated_english ==
    /\ pc = "find_generated_en"
    /\ TryTrack("find_generated_en",
                find_generated_transcript(transcript_list, <<"en">>),
                FALSE, "find_manual")
    /\ UNCHANGED <<data, video_urls, response, transcript_list>>
    /\ UNCHANGED <<urlVars, fmtVars>>

find_manual ==
    /\ pc = "find_manual"
    /\ TryTrack("find_manual", find_manually_created_any(transcript_list),
                TRUE, "find_generated")
    /\ UNCHANGED <<data, video_urls, response, transcript_list>>
    /\ UNCHANGED <<urlVars, fmtVars>>

find_generated ==
    /\ pc = "find_generated"
    /\ TryTrack("find_generated", find_generated_any(transcript_list),
                TRUE, "last_resort")
    /\ UNCHANGED <<data, video_urls, response, transcript_list>>
    /\ UNCHANGED <<urlVars, fmtVars>>

\* last_resort without "if transcripts:": transcripts[0] of an empty list
\* raises IndexError
last_resort_unguarded ==
    /\ pc = "last_resort"
    /\ LET transcripts == transcript_list.manual_transcripts
                          \o transcript_list.generated_transcripts
       IN  IF transcripts = <<>>
           THEN /\ Attempt("last_resort", "empty", "Exception")
                /\ Return(ErrorResult("Exception"))
           ELSE \E stage \in {"translate", "fetch"}, o \in Outcomes :
                  /\ stage = "translate" => o # "ok"
                  /\ Attempt("last_resort", stage, o)
                  /\ IF o = "ok"
                     THEN Return(ListValue(fetch(translate(transcripts[1], "en"))))
                     ELSE Return(ErrorResult(o))
    /\ UNCHANGED <<data, video_urls, response, transcript_list>>
    /\ UNCHANGED <<urlVars, fmtVars>>

\* the innermost except NoTranscriptFound: the first of all tracks,
\* translated; with no track at all, raise NoTranscriptFound
last_resort ==
    /\ pc = "last_resort"
    /\ LET transcripts == transcript_list.manual_transcripts
                          \o transcript_list.generated_transcripts
       IN  IF transcripts = <<>>
           THEN /\ Attempt("last_resort", "empty", "NoTranscriptFound")
                /\ Return(ErrorResult("NoTranscriptFound"))
           ELSE \E stage \in {"translate", "fetch"}, o \in Outcomes :
                  /\ stage = "translate" => o # "ok"
                  /\ Attempt("last_resort", stage, o)
                  /\ IF o = "ok"
                     THEN Return(ListValue(fetch(translate(transcripts[1], "en"))))
                     ELSE Return(ErrorResult(o))
    /\ UNCHANGED <<data, video_urls, response, transcript_list>>
    /\ UNCHANGED <<urlVars, fmtVars>>

InitService ==
    /\ pc = "idle"
    /\ data = [kind |-> "none", has_urls |-> FALSE, urls |-> <<>>]
    /\ video_urls = <<>>
    /\ idx = 1
    /\ results = <<>>
    /\ response = NoResponse
    /\ transcript_list = NotListed
    /\ attempts = <<>>
    /\ returned = <<>>

InitUrlIdle == url_arg = "" /\ extracted = Pending

InitFmtIdle ==
    /\ fmt_transcript = <<>>
    /\ fmt_metadata = [title |-> "", channel |-> "", url |-> ""]
    /\ formatted_text = ""

Init == InitService /\ InitUrlIdle /\ InitFmtIdle

Next ==
    \/ process_videos
    \/ get_transcript
    \/ direct_fetch
    \/ list_transcripts
    \/ find_english
    \/ find_generated_english
    \/ find_manual
    \/ find_generated
    \/ last_resort
    \/ respond_results

Spec == Init /\ [][Next]_vars


(***************************************************************************)
(* extract_video_id on its own: one call on a URL of a recognised shape.   *)
(***************************************************************************)

\* text before the shape marker: scheme, host prefix, an archived copy
Before ==
    { "", "https://", "https://www.", "http://m.",
      "https://web.archive.org/web/20200101000000/https://www." }

\* the shapes ...youtube.com/watch?v=<id>, ...youtu.be/<id>, ...embed/<id>
Shapes ==
    { "youtube.com/watch?v=", "youtu.be/", "youtube.com/embed/",
      "youtube-nocookie.com/embed/" }

\* 11-character identifiers
Ids == { "dQw4w9WgXcQ", "9bZ_p7q-9f0" }

\* what follows the identifier: query parameters, path segments
After == { "", "&t=42s", "?si=AbCdEfGhIjKlMnOp", "/related?list=PL1234567890abcdef" }

InitUrl ==
    /\ InitService /\ InitFmtIdle
    /\ url_arg \in { b \o m \o i \o a : b \in Before, m \in Shapes,
                                        i \in Ids, a \in After }
    /\ extracted = Pending

call_extract_video_id ==
    /\ extracted = Pending
    /\ extracted' = extract_video_id(url_arg)
    /\ UNCHANGED <<url_arg, svcVars, fmtVars>>

NextUrl == call_extract_video_id

SpecUrl == InitUrl /\ [][NextUrl]_vars


(***************************************************************************)
(* format_transcript.  A start time is a count of ticks, TicksPerSecond    *)
(* ticks to the second (125.9 s is 1259 ticks of a tenth).                 *)
(***************************************************************************)

TicksPerSecond == 10

\* most caption entries of one transcript
MaxEntries == 2

\* str(d) of one decimal digit
DigitChar(d) == SubSeq("0123456789", d + 1, d + 1)

\* str(n) for n >= 0
RECURSIVE Decimal(_)
Decimal(n) ==
    IF n < 10 THEN DigitChar(n) ELSE Decimal(n \div 10) \o DigitChar(n % 10)

\* f"{n:02d}": sign first, then zeros up to a width of 2
format_02d(n) ==
    LET digits == Decimal(IF n < 0 THEN -n ELSE n)
        sign == IF n < 0 THEN "-" ELSE ""
    IN  IF Len(sign) + Len(digits) < 2 THEN sign \o "0" \o digits
        ELSE sign \o digits

\* seconds rounded to the nearest instead of cut
seconds_rounded(start) ==
    (((start % (60 * TicksPerSecond)) * 2 + TicksPerSecond)
        \div (2 * TicksPerSecond))

\* int(entry['start'] // 60)
minutes_of(start) == start \div (60 * TicksPerSecond)

\* int(entry['start'] % 60)
seconds_of(start) == (start % (60 * TicksPerSecond)) \div TicksPerSecond

\* the body of the for loop: the line of one entry
entry_line(entry) ==
    LET timestamp == format_02d(minutes_of(entry.start)) \o ":"
                     \o format_02d(seconds_of(entry.start))
    IN  "[" \o timestamp \o "] " \o entry.text \o "\n"

RECURSIVE entry_lines(_)
entry_lines(transcript) ==
    IF transcript = <<>> THEN ""
    ELSE entry_line(Head(transcript)) \o entry_lines(Tail(transcript))

format_transcript(transcript, metadata) ==
    "Brought to you by Podflare\n\n"
    \o "Video: " \o metadata.title \o "\n"
    \o "Channel: " \o metadata.channel \o "\n"
    \o "URL: " \o metadata.url \o "\n\n"
    \o "Transcript:\n\n"
    \o entry_lines(transcript)

\* start times, in ticks: 0 s, just under 6 s, 60 s, just under 126 s,
\* one hour, 1000 minutes and a half second, and half a second before 0
Starts ==
    { 0,
      6 * TicksPerSecond - 1,
      60 * TicksPerSecond,
      126 * TicksPerSecond - 1,
      3600 * TicksPerSecond,
      60000 * TicksPerSecond + TicksPerSecond \div 2,
      0 - TicksPerSecond \div 2 }

Texts == { "Never gonna give you up", "[Music]\n(applause)" }

CaptionEntries == [start : Starts, text : Texts]

Metadatas ==
    { [title |-> "Rick Astley - Never Gonna Give You Up",
       channel |-> "YouTube",
       url |-> "https://www.youtube.com/watch?v=dQw4w9WgXcQ"],
      [title |-> "Video dQw4w9WgXcQ",
       channel |-> "Unknown Channel",
       url |-> "https://www.youtube.com/watch?v=dQw4w9WgXcQ"] }

InitFmt ==
    /\ InitService /\ InitUrlIdle
    /\ fmt_transcript \in SeqsUpTo(CaptionEntries, MaxEntries)
    /\ fmt_metadata \in Metadatas
    /\ formatted_text = ""

call_format_transcript ==
    /\ formatted_text = ""
    /\ formatted_text' = format_transcript(fmt_transcript, fmt_metadata)
    /\ UNCHANGED <<fmt_transcript, fmt_metadata, svcVars, urlVars>>

NextFmt == call_format_transcript

SpecFmt == InitFmt /\ [][NextFmt]_vars


(***************************************************************************)
(* Properties of get_transcript, process_multiple_videos, process_videos   *)
(* (checked under Spec).                                                   *)
(***************************************************************************)

\* a call of get_transcript has returned and none has started since:
\* attempts and transcript_list are those of that call
CallReturned == pc \in {"loop", "responded"} /\ returned # <<>>

LastReturned == returned[Len(returned)]

LastAttempt == attempts[Len(attempts)]

\* the track list holds a track with the language code
HasTrack(tracks, code) ==
    \E k \in 1 .. Len(tracks) : tracks[k].language_code = code

\* C1: for a URL with a valid video id, an error result is returned only
\* after the last strategy of the chain was attempted, or after the track
\* enumeration itself failed: no other failure ends the chain.
C1_FailureNeverAbortsChain ==
    (CallReturned /\ attempts # <<>> /\ ~LastReturned.is_list)
        => LastAttempt.strategy \in {"last_resort", "list"}

\* the order of the strategies in the code
CodeOrder ==
    << "direct", "list", "find_en", "find_generated_en", "find_manual",
       "find_generated", "last_resort" >>

\* the order of the strategies with a second direct fetch (the one
\* constrained to 'en') between the first and the enumeration
ClaimedOrder ==
    << "direct", "direct", "list", "find_en", "find_generated_en",
       "find_manual", "find_generated", "last_resort" >>

\* items is what the strategy returns when it succeeds on transcript_list
IsResultOf(strategy, items) ==
    /\ Len(items) = 1
    /\ LET c == items[1]
           manual == transcript_list.manual_transcripts
           generated == transcript_list.generated_transcripts
           all == manual \o generated
       IN  CASE strategy = "direct" -> c.via = "get_transcript"
             [] strategy = "find_en" ->
                    /\ c.via = "fetch" /\ c.language_code = "en"
                    /\ c.translated_to = ""
                    /\ c.is_generated <=> ~HasTrack(manual, "en")
                    /\ HasTrack(all, "en")
             [] strategy = "find_generated_en" ->
                    /\ c.via = "fetch" /\ c.language_code = "en"
                    /\ c.translated_to = ""
                    /\ c.is_generated /\ HasTrack(generated, "en")
             [] strategy = "find_manual" ->
                    /\ c.via = "fetch" /\ c.translated_to = "en"
                    /\ ~c.is_generated /\ HasTrack(manual, c.language_code)
             [] strategy = "find_generated" ->
                    /\ c.via = "fetch" /\ c.translated_to = "en"
                    /\ c.is_generated /\ HasTrack(generated, c.language_code)
             [] strategy = "last_resort" ->
                    /\ c.via = "fetch" /\ c.translated_to = "en"
                    /\ all # <<>>
                    /\ c.language_code = all[1].language_code
                    /\ c.is_generated = all[1].is_generated
             [] OTHER -> FALSE

C3_OneEntryPerInputUrl ==
    (pc = "responded" /\ response.status = 200)
        => Cardinality(DOMAIN response.results) = Len(video_urls)

\* C4: every URL of the batch is processed, and the entry of each has
\* status success exactly when its own resolution succeeded.
C4_EntryReflectsOwnResolution ==
    (pc = "responded" /\ response.status = 200)
        => /\ Len(returned) = Len(video_urls)
           /\ \A k \in 1 .. Len(video_urls) :
                  /\ video_urls[k] \in DOMAIN response.results
                  /\ (response.results[video_urls[k]].status = "success")
                         <=> returned[k].is_list

\* the direct fetch failed and the enumeration raised TranscriptsDisabled
DisabledCase ==
    /\ Len(attempts) >= 2
    /\ attempts[1].strategy = "direct" /\ attempts[1].outcome # "ok"
    /\ attempts[2].strategy = "list"
    /\ attempts[2].outcome = "TranscriptsDisabled"

\* C5: when the direct fetch fails and the enumeration raises
\* TranscriptsDisabled, get_transcript returns the error "Transcripts are
\* disabled for this video" and nothing but the direct fetch and the
\* enumeration was attempted.
C5_DisabledReturnsDistinctError ==
    DisabledCase
        => /\ Len(attempts) = 2
           /\ CallReturned
           /\ ~LastReturned.is_list
           /\ LastReturned.dict.error = "Transcripts are disabled for this video"
           /\ transcript_list = NotListed

C5_Witness == DisabledCase /\ CallReturned

\* the enumeration succeeded with no track of either kind
NoTrackCase ==
    /\ Len(attempts) >= 2
    /\ attempts[2].strategy = "list" /\ attempts[2].outcome = "ok"
    /\ transcript_list.manual_transcripts = <<>>
    /\ transcript_list.generated_transcripts = <<>>

\* C6: when the enumeration succeeds with no track in any language,
\* every lookup fails with NoTranscriptFound and get_transcript returns the
\* error "No transcript found", not "Error fetching transcript: ...".
C6_NoTrackReturnsNotFound ==
    (NoTrackCase /\ CallReturned)
        => /\ ~LastReturned.is_list
           /\ LastReturned.dict.error = "No transcript found"
           /\ Len(attempts) = Len(CodeOrder)
           /\ \A k \in 3 .. Len(attempts) :
                  attempts[k].outcome = "NoTranscriptFound"

C6_Witness == NoTrackCase /\ CallReturned

\* the direct fetch failed, the enumeration gave one track only, generated
\* and not 'en', and every translate and fetch of a track succeeded
GeneratedOnlyCase ==
    /\ Len(attempts) >= 2
    /\ attempts[1].strategy = "direct" /\ attempts[1].outcome # "ok"
    /\ attempts[2].strategy = "list" /\ attempts[2].outcome = "ok"
    /\ transcript_list.manual_transcripts = <<>>
    /\ Len(transcript_list.generated_transcripts) = 1
    /\ transcript_list.generated_transcripts[1].language_code # "en"
    /\ \A k \in 3 .. Len(attempts) :
           attempts[k].stage = "lookup" \/ attempts[k].outcome = "ok"

\* C7: for a video whose only track is generated and not 'en', with
\* translation available, get_transcript goes through the direct fetch and
\* the 'en' lookups to the translation strategies and returns the
\* translated, non-empty caption sequence.
C7_GeneratedOnlyIsTranslated ==
    (GeneratedOnlyCase /\ CallReturned)
        => /\ LastReturned.is_list
           /\ LastReturned.items # <<>>
           /\ LastReturned.items[1].translated_to = "en"
           /\ LastReturned.items[1].is_generated
           /\ LastReturned.items[1].language_code
                  = transcript_list.generated_transcripts[1].language_code
           /\ [k \in 1 .. Len(attempts) |-> attempts[k].strategy]
                  = SubSeq(CodeOrder, 1, 6)

C7_Witness == GeneratedOnlyCase /\ CallReturned

\* C8: process_videos answers 400 exactly when urls is empty or absent,
\* the request body being empty or malformed included.
C8_400IffNoUrls ==
    pc = "responded"
        => ((response.status = 400)
               <=> (\/ data.kind \in {"raise", "none"}
                    \/ ~data.has_urls
                    \/ data.urls = <<>>))


(***************************************************************************)
(* Property of extract_video_id (checked under SpecUrl).                   *)
(***************************************************************************)

\* C9: for a URL made of any text, a shape marker, an 11-character
\* identifier and anything after it, extract_video_id returns the
\* identifier.
C9_ReturnsTheIdentifier ==
    extracted # Pending
        => \A b \in Before, m \in Shapes, i \in Ids, a \in After :
               url_arg = b \o m \o i \o a => extracted = i

(***************************************************************************)
(* Property of format_transcript (checked under SpecFmt).                  *)
(***************************************************************************)

IsDigit(c) == \E d \in 0 .. 9 : c = SubSeq("0123456789", d + 1, d + 1)

\* the number a string of decimal digits writes
RECURSIVE NumberOf(_)
NumberOf(str) ==
    IF str = "" THEN 0
    ELSE 10 * NumberOf(SubSeq(str, 1, Len(str) - 1))
         + (CHOOSE d \in 0 .. 9 :
                SubSeq(str, Len(str), Len(str)) = SubSeq("0123456789", d + 1, d + 1))

\* the banner and the Video/Channel/URL lines
ExpectedHeader(metadata) ==
    "Brought to you by Podflare\n\nVideo: " \o metadata.title
    \o "\nChannel: " \o metadata.channel
    \o "\nURL: " \o metadata.url \o "\n\nTranscript:\n\n"

\* the position after the line of entry when text holds, from position p,
\* "[MM:SS] " and the text of the entry and a line break, MM being the
\* whole minutes of the start (two digits at least, no zero before three
\* digits or more) and SS the whole seconds of the start modulo 60 (two
\* digits); 0 when it does not
AfterLine(text, p, entry) ==
    LET colons == { q \in p + 1 .. Len(text) : SubSeq(text, q, q) = ":" }
        c == IF colons = {} THEN 0
             ELSE CHOOSE q \in colons : \A r \in colons : q <= r
        mm == SubSeq(text, p + 1, c - 1)
        ss == SubSeq(text, c + 1, c + 2)
        body == "] " \o entry.text \o "\n"
        m == NumberOf(mm)
        sec == NumberOf(ss)
    IN  IF /\ c # 0
           /\ SubSeq(text, p, p) = "["
           /\ c + 2 + Len(body) <= Len(text)
           /\ Len(mm) >= 2
           /\ \A k \in 1 .. Len(mm) : IsDigit(SubSeq(mm, k, k))
           /\ Len(mm) > 2 => SubSeq(mm, 1, 1) # "0"
           /\ \A k \in 1 .. 2 : IsDigit(SubSeq(ss, k, k))
           /\ SubSeq(text, c + 3, c + 2 + Len(body)) = body
           \* m = floor(start / 60)
           /\ 60 * m * TicksPerSecond <= entry.start
           /\ entry.start < 60 * (m + 1) * TicksPerSecond
           \* sec = floor(start) mod 60
           /\ sec < 60
           /\ (60 * m + sec) * TicksPerSecond <= entry.start
           /\ entry.start < (60 * m + sec + 1) * TicksPerSecond
        THEN c + 3 + Len(body)
        ELSE 0

\* the position after the lines of the entries, read one after the other
\* from position p; 0 when a line is not the line of its entry
RECURSIVE AfterLines(_, _, _)
AfterLines(text, p, entries) ==
    IF entries = <<>> THEN p
    ELSE LET q == AfterLine(text, p, Head(entries))
         IN  IF q = 0 THEN 0 ELSE AfterLines(text, q, Tail(entries))

Formatted == formatted_text # ""

\* C10: for entries with start >= 0, the text is the banner and the
\* Video/Channel/URL lines followed by exactly one line [MM:SS] text per
\* entry, in the order received, with MM = floor(start / 60) (not wrapped at
\* 60) and SS = floor(start) mod 60 (cut, not rounded), each of two digits
\* at least.
C10_OneLinePerEntry ==
    (Formatted /\ \A k \in 1 .. Len(fmt_transcript) : fmt_transcript[k].start >= 0)
        => LET header == ExpectedHeader(fmt_metadata)
           IN  /\ Len(formatted_text) >= Len(header)
               /\ SubSeq(formatted_text, 1, Len(header)) = header
               /\ AfterLines(formatted_text, Len(header) + 1, fmt_transcript)
                      = Len(formatted_text) + 1

\* an entry starting a tick before 126 s (125.9 s) after one of 1000
\* minutes, formatted
C10_Witness ==
    /\ Formatted
    /\ Len(fmt_transcript) = 2
    /\ fmt_transcript[1].start = 60000 * TicksPerSecond + TicksPerSecond \div 2
    /\ fmt_transcript[2].start = 126 * TicksPerSecond - 1
    /\ \E p \in 1 .. Len(formatted_text) - 16 :
           SubSeq(formatted_text, p, p + 16) = "[1000:00] [Music]"
    /\ \E p \in 1 .. Len(formatted_text) - 7 :
           SubSeq(formatted_text, p, p + 7) = "\n[02:05]"

=============================================================================
